---- MODULE Spec2Model ----
(***************************************************************************)
(* A model of the jurgio_engine chess core: the bit-set BoardState of      *)
(* src/board.rs (piece lookup, mutation, square safety, castling queries,  *)
(* apply_move) and the History tracker of src/history.rs.                  *)
(*                                                                         *)
(* A BitBoard (a u64 used as a set of squares) is modelled as the set of   *)
(* the squares whose bit is set; every square handled here is below 64, so *)
(* `1 << square` never overflows.  A BoardState is a record with the       *)
(* fields of the struct.  Every method is an operator from the state       *)
(* before the call to the state after it; an action applies one method.    *)
(***************************************************************************)
EXTENDS Integers, Sequences, FiniteSets, TLC

VARIABLES
    board,      \* the BoardState under test
    history,    \* the History under test
    panicked,   \* TRUE once a call has aborted the process (panic)
    last,       \* the last call made: its name, arguments, state before, result
    called,     \* the names of the mutating methods called so far
    steps,      \* number of mutating calls made so far
    pushed,     \* the entries pushed and not yet popped or cleared, oldest
                \* first: the stack the History is meant to be
    array_board \* the array BoardState that moves.rs works on

vars == <<board, history, panicked, last, called, steps, pushed, array_board>>

-----------------------------------------------------------------------------
(* Program constants *)

BOARD_SIZE == 8

TOTAL_SQUARES == 64

MAX_GAME_MOVES == 1024

(* Bounds of the model *)

MaxSteps == 2

MaxLen == 4

MaxSlack == 2

-----------------------------------------------------------------------------
(* pieces.rs *)

Colours == {"White", "Black"}

Kinds == {"Pawn", "Knight", "Bishop", "Rook", "Queen", "King"}

Piece(kind, colour) == [kind |-> kind, colour |-> colour]

Pieces == [kind : Kinds, colour : Colours]

\* Option<Piece>::None
None == [kind |-> "None", colour |-> "None"]

opposite(colour) == IF colour = "White" THEN "Black" ELSE "White"

Squares == 0 .. (TOTAL_SQUARES - 1)

\* Option<usize>: <<>> is None, <<x>> is Some(x)
NoSquare == << >>

Some(x) == << x >>

-----------------------------------------------------------------------------
(* board.rs: BitBoard *)

BitBoard_empty == {}

BitBoard_set(bits, square) == bits \cup {square}

\* the mutant: `self.0 &= 1 << square` (the complement forgotten)
BitBoard_clear_NoComplement(bits, square) == bits \cap {square}

BitBoard_clear(bits, square) == bits \ {square}

BitBoard_is_set(bits, square) == square \in bits

-----------------------------------------------------------------------------
(* board.rs: BoardState *)

PieceSets ==
    << "white_pawns", "black_pawns", "white_knights", "black_knights",
       "white_bishops", "black_bishops", "white_rooks", "black_rooks",
       "white_queens", "black_queens", "white_king", "black_king" >>

WhiteSets ==
    {"white_pawns", "white_knights", "white_bishops", "white_rooks",
     "white_queens", "white_king"}

BlackSets ==
    {"black_pawns", "black_knights", "black_bishops", "black_rooks",
     "black_queens", "black_king"}

update_aggregate_bitboards(b) ==
    LET w == b.white_pawns \cup b.white_knights \cup b.white_bishops
               \cup b.white_rooks \cup b.white_queens \cup b.white_king
        k == b.black_pawns \cup b.black_knights \cup b.black_bishops
               \cup b.black_rooks \cup b.black_queens \cup b.black_king
    IN  [b EXCEPT !.all_white = w, !.all_black = k, !.all_pieces = w \cup k]

setup_pieces(b) ==
    update_aggregate_bitboards(
        [b EXCEPT !.white_pawns = 8 .. 15,
                  !.black_pawns = 48 .. 55,
                  !.white_rooks = {0, 7},
                  !.black_rooks = {56, 63},
                  !.white_knights = {1, 6},
                  !.black_knights = {57, 62},
                  !.white_bishops = {2, 5},
                  !.black_bishops = {58, 61},
                  !.white_queens = {3},
                  !.black_queens = {59},
                  !.white_king = {4},
                  !.black_king = {60}])

\* BoardState::new()
BoardState_new ==
    setup_pieces(
        [white_pawns |-> BitBoard_empty, black_pawns |-> BitBoard_empty,
         white_knights |-> BitBoard_empty, black_knights |-> BitBoard_empty,
         white_bishops |-> BitBoard_empty, black_bishops |-> BitBoard_empty,
         white_rooks |-> BitBoard_empty, black_rooks |-> BitBoard_empty,
         white_queens |-> BitBoard_empty, black_queens |-> BitBoard_empty,
         white_king |-> BitBoard_empty, black_king |-> BitBoard_empty,
         all_white |-> BitBoard_empty, all_black |-> BitBoard_empty,
         all_pieces |-> BitBoard_empty,
         to_move |-> "White",
         castling_rights |-> [i \in 0 .. 3 |-> TRUE],
         en_passant_square |-> NoSquare])

\* The first of the 12 sets, in the fixed order of the if-chain, that holds
\* the square decides the piece.
piece_at(b, square) ==
    IF BitBoard_is_set(b.white_pawns, square) THEN Piece("Pawn", "White")
    ELSE IF BitBoard_is_set(b.black_pawns, square) THEN Piece("Pawn", "Black")
    ELSE IF BitBoard_is_set(b.white_knights, square) THEN Piece("Knight", "White")
    ELSE IF BitBoard_is_set(b.black_knights, square) THEN Piece("Knight", "Black")
    ELSE IF BitBoard_is_set(b.white_bishops, square) THEN Piece("Bishop", "White")
    ELSE IF BitBoard_is_set(b.black_bishops, square) THEN Piece("Bishop", "Black")
    ELSE IF BitBoard_is_set(b.white_rooks, square) THEN Piece("Rook", "White")
    ELSE IF BitBoard_is_set(b.black_rooks, square) THEN Piece("Rook", "Black")
    ELSE IF BitBoard_is_set(b.white_queens, square) THEN Piece("Queen", "White")
    ELSE IF BitBoard_is_set(b.black_queens, square) THEN Piece("Queen", "Black")
    ELSE IF BitBoard_is_set(b.white_king, square) THEN Piece("King", "White")
    ELSE IF BitBoard_is_set(b.black_king, square) THEN Piece("King", "Black")
    ELSE None

\* Only the two pawn sets and the three aggregates are cleared.
clear_square(b, square) ==
    [b EXCEPT !.white_pawns = BitBoard_clear(@, square),
              !.black_pawns = BitBoard_clear(@, square),
              !.all_white = BitBoard_clear(@, square),
              !.all_black = BitBoard_clear(@, square),
              !.all_pieces = BitBoard_clear(@, square)]

\* the field the match arm of set_piece_at ORs the bit into
SetOf(piece) ==
    CASE piece = Piece("Pawn", "White") -> "white_pawns"
      [] piece = Piece("Pawn", "Black") -> "black_pawns"
      [] piece = Piece("Knight", "White") -> "white_knights"
      [] piece = Piece("Knight", "Black") -> "black_knights"
      [] piece = Piece("Bishop", "White") -> "white_bishops"
      [] piece = Piece("Bishop", "Black") -> "black_bishops"
      [] piece = Piece("Rook", "White") -> "white_rooks"
      [] piece = Piece("Rook", "Black") -> "black_rooks"
      [] piece = Piece("Queen", "White") -> "white_queens"
      [] piece = Piece("Queen", "Black") -> "black_queens"
      [] piece = Piece("King", "White") -> "white_king"
      [] piece = Piece("King", "Black") -> "black_king"

\* clear_square, then OR the bit into the piece's own set; the aggregates are
\* not touched again.
set_piece_at(b, square, piece) ==
    LET c == clear_square(b, square)
    IN  [c EXCEPT ![SetOf(piece)] = @ \cup {square}]

update_castling_rights(b, wk, wq, bk, bq) ==
    [b EXCEPT !.castling_rights =
        [i \in 0 .. 3 |-> CASE i = 0 -> wk [] i = 1 -> wq [] i = 2 -> bk [] i = 3 -> bq]]

flip_turn(b) == [b EXCEPT !.to_move = opposite(@)]

\* A fixed-offset probe (pawn, knight, king): `(square as isize + offset) as
\* usize` is below 64 exactly when square + offset is in 0..63 (a negative sum
\* wraps to a huge usize); no file-wrap test is made.
offset_attack(b, square, offsets, kind, opponent_colour) ==
    \E offset \in offsets :
        LET target == square + offset
        IN  /\ target \in Squares
            /\ piece_at(b, target) = Piece(kind, opponent_colour)

DiagonalDirections == {9, 7, -9, -7}

OrthogonalDirections == {8, -8, 1, -1}

\* The while loop of one sliding direction: walk until off the 0..63 range or
\* the first occupied square, which attacks iff it is an opposing slider of
\* the direction's kind.
RECURSIVE ray_attack(_, _, _, _)
ray_attack(b, target, direction, opponent_colour) ==
    IF target < 0 \/ target >= 64 THEN FALSE
    ELSE LET piece == piece_at(b, target)
         IN  IF piece # None
             THEN /\ piece.colour = opponent_colour
                  /\ \/ (piece.kind = "Bishop" /\ direction \in DiagonalDirections)
                     \/ (piece.kind = "Rook" /\ direction \in OrthogonalDirections)
                     \/ piece.kind = "Queen"
             ELSE ray_attack(b, target + direction, direction, opponent_colour)

is_square_safe(b, square) ==
    LET opponent_colour == opposite(b.to_move)
        pawn_attack_offsets ==
            IF opponent_colour = "White" THEN {-9, -7} ELSE {9, 7}
        knight_offsets == {17, 15, 10, 6, -17, -15, -10, -6}
        sliding_directions == {9, 7, -9, -7, 8, -8, 1, -1}
        king_offsets == {9, 7, -9, -7, 8, -8, 1, -1}
    IN  /\ ~offset_attack(b, square, pawn_attack_offsets, "Pawn", opponent_colour)
        /\ ~offset_attack(b, square, knight_offsets, "Knight", opponent_colour)
        /\ \A direction \in sliding_directions :
              ~ray_attack(b, square + direction, direction, opponent_colour)
        /\ ~offset_attack(b, square, king_offsets, "King", opponent_colour)

\* Only the kinds are compared, not the colours.
validate_castling_pieces(b, king_square, rook_square) ==
    /\ piece_at(b, king_square) # None
    /\ piece_at(b, king_square).kind = "King"
    /\ piece_at(b, rook_square) # None
    /\ piece_at(b, rook_square).kind = "Rook"

can_castle_kingside(b, colour) ==
    LET king_square == IF colour = "White" THEN 4 ELSE 60
        rook_square == IF colour = "White" THEN 7 ELSE 63
        empty_squares == IF colour = "White" THEN {5, 6} ELSE {61, 62}
        check_squares == IF colour = "White" THEN {4, 5, 6} ELSE {60, 61, 62}
        rights == IF colour = "White" THEN b.castling_rights[0]
                                      ELSE b.castling_rights[2]
    IN  /\ rights
        /\ \A sq \in empty_squares : ~BitBoard_is_set(b.all_pieces, sq)
        /\ \A sq \in check_squares : is_square_safe(b, sq)
        /\ validate_castling_pieces(b, king_square, rook_square)

can_castle_queenside(b, colour) ==
    LET king_square == IF colour = "White" THEN 4 ELSE 60
        rook_square == IF colour = "White" THEN 0 ELSE 56
        empty_squares == IF colour = "White" THEN {1, 2, 3} ELSE {57, 58, 59}
        check_squares == IF colour = "White" THEN {2, 3, 4} ELSE {58, 59, 60}
        rights == IF colour = "White" THEN b.castling_rights[1]
                                      ELSE b.castling_rights[3]
    IN  /\ rights
        /\ \A sq \in empty_squares : ~BitBoard_is_set(b.all_pieces, sq)
        /\ \A sq \in check_squares : is_square_safe(b, sq)
        /\ validate_castling_pieces(b, king_square, rook_square)

-----------------------------------------------------------------------------
(* board.rs: apply_move.  A ChessMove is [from, to, promotion]; promotion is
   a piece kind or "None". *)

ChessMove(from, to, promotion) ==
    [from |-> from, to |-> to, promotion |-> promotion]

abs(x) == IF x < 0 THEN -x ELSE x

\* the mutant: the rank delta compared without .abs()
update_en_passant_square_NoAbs(b, chess_move) ==
    LET from_rank == chess_move.from \div 8
        to_rank == chess_move.to \div 8
        piece == piece_at(b, chess_move.from)
    IN  IF piece # None /\ piece.kind = "Pawn" /\ to_rank - from_rank = 2
        THEN [b EXCEPT !.en_passant_square =
                            Some((chess_move.from + chess_move.to) \div 2)]
        ELSE [b EXCEPT !.en_passant_square = NoSquare]

update_en_passant_square(b, chess_move) ==
    LET from_rank == chess_move.from \div 8
        to_rank == chess_move.to \div 8
        piece == piece_at(b, chess_move.from)
    IN  IF piece # None /\ piece.kind = "Pawn" /\ abs(to_rank - from_rank) = 2
        THEN [b EXCEPT !.en_passant_square =
                            Some((chess_move.from + chess_move.to) \div 2)]
        ELSE [b EXCEPT !.en_passant_square = NoSquare]

\* The result of a call that may abort: the state it leaves and whether it
\* panicked.
Returned(b) == [board |-> b, panicked |-> FALSE]

Panic(b) == [board |-> b, panicked |-> TRUE]

\* the mutant: `if let Some(piece)` in place of `.expect(..)`, so a move from
\* an empty square updates the en-passant target, flips the turn and returns
apply_move_NoExpect(b, chess_move) ==
    LET from == chess_move.from
        to == chess_move.to
        piece == piece_at(b, from)
        b1 == update_en_passant_square(b, chess_move)
        b2 == IF piece = None THEN b1
              ELSE set_piece_at(clear_square(b1, from), to, piece)
        b3 == IF piece # None /\ piece.kind = "Pawn" /\ chess_move.promotion # "None"
              THEN set_piece_at(clear_square(b2, to), to,
                                Piece(chess_move.promotion, piece.colour))
              ELSE b2
    IN  Returned(flip_turn(b3))

\* the mutant: a move that leaves or lands on a king's origin square (e1, e8)
\* takes away both castling rights of that king's colour
apply_move_RevokesRights(b, chess_move) ==
    LET r == apply_move_NoExpect(b, chess_move)
        touched(square) == square \in {chess_move.from, chess_move.to}
        rights == [i \in 0 .. 3 |->
                     /\ b.castling_rights[i]
                     /\ ~touched(IF i < 2 THEN 4 ELSE 60)]
    IN  IF piece_at(b, chess_move.from) = None THEN Panic(b)
        ELSE [r EXCEPT !.board.castling_rights = rights]

\* compute_hash at the end reads the board only and its result is logged, so
\* it leaves no trace in the state.  The en-passant test reads the target
\* that update_en_passant_square has just written for this very move; were
\* it to pass with `to - 8` or `to + 8` outside 0..63, the subtraction or the
\* shift would overflow, which is modelled as a panic.
apply_move(b, chess_move) ==
    LET from == chess_move.from
        to == chess_move.to
        piece == piece_at(b, from)
    IN  IF piece = None THEN Panic(b)
        ELSE
        LET b1 == update_en_passant_square(b, chess_move)
            b2 == clear_square(b1, from)
            b3 == set_piece_at(b2, to, piece)
            ep_capture == /\ piece.kind = "Pawn"
                          /\ b3.en_passant_square # NoSquare
                          /\ to = b3.en_passant_square[1]
            captured_square == IF piece.colour = "White" THEN to - 8 ELSE to + 8
            b4 == IF ep_capture /\ captured_square \in Squares
                  THEN clear_square(b3, captured_square)
                  ELSE b3
            b5 == IF piece.kind = "Pawn" /\ chess_move.promotion # "None"
                  THEN set_piece_at(clear_square(b4, to), to,
                                    Piece(chess_move.promotion, piece.colour))
                  ELSE b4
        IN  IF ep_capture /\ captured_square \notin Squares
            THEN Panic(b3)
            ELSE Returned(flip_turn(b5))

-----------------------------------------------------------------------------
(* history.rs *)

GameState(zobrist_hash, half_move_clock) ==
    [zobrist_hash |-> zobrist_hash, half_move_clock |-> half_move_clock]

GameState_new == GameState(0, 0)

\* `list`, an array of MAX_GAME_MOVES entries all GameState::new() at first,
\* is kept as the sequence of its slots written so far (slot i is element
\* i + 1); every slot beyond them still holds GameState::new().
\* `repetitions`, a HashMap<u64, usize>, is the set of its (key, value)
\* entries; no two entries share a key.
History_new ==
    [list |-> << >>,
     count |-> 0,
     repetitions |-> {}]

\* list[index], for index < MAX_GAME_MOVES
list_at(h, index) ==
    IF index < Len(h.list) THEN h.list[index + 1] ELSE GameState_new

\* list[index] = g, for index < MAX_GAME_MOVES; push and pop keep
\* count <= Len(list), so a write lands on a written slot or the next one
list_put(h, index, g) ==
    IF index < Len(h.list) THEN [h.list EXCEPT ![index + 1] = g]
    ELSE Append(h.list, g)

Keys(map) == {e[1] : e \in map}

Get(map, key) == (CHOOSE e \in map : e[1] = key)[2]

\* `*map.entry(key).or_insert(0) += 1`
entry_or_insert_add_one(map, key) ==
    IF key \in Keys(map)
    THEN (map \ {<<key, Get(map, key)>>}) \cup {<<key, Get(map, key) + 1>>}
    ELSE map \cup {<<key, 1>>}

\* the mutant: count is incremented before the slot list[count - 1] is
\* written, so the aborted push has already counted its entry
push_IncrementFirst(h, g) ==
    IF h.count >= MAX_GAME_MOVES
    THEN [history |-> [h EXCEPT !.count = h.count + 1], panicked |-> TRUE]
    ELSE [history |->
            [list |-> list_put(h, h.count, g),
             count |-> h.count + 1,
             repetitions |-> entry_or_insert_add_one(h.repetitions, g.zobrist_hash)],
          panicked |-> FALSE]

\* Indexing list[count] with count = MAX_GAME_MOVES panics before any write.
push(h, g) ==
    IF h.count >= MAX_GAME_MOVES THEN [history |-> h, panicked |-> TRUE]
    ELSE [history |->
            [list |-> list_put(h, h.count, g),
             count |-> h.count + 1,
             repetitions |-> entry_or_insert_add_one(h.repetitions, g.zobrist_hash)],
          panicked |-> FALSE]

\* the mutant: the occurrence count is not decremented on pop
pop_NoDecrement(h) ==
    IF h.count > 0
    THEN [history |-> [h EXCEPT !.count = h.count - 1],
          ret |-> <<list_at(h, h.count - 1)>>]
    ELSE [history |-> h, ret |-> << >>]

\* the mutant: the slot is read before the count is decremented
pop_ReadBeforeDecrement(h) ==
    IF h.count > 0
    THEN [history |-> pop_NoDecrement(h).history,
          ret |-> <<list_at(h, h.count)>>]
    ELSE [history |-> h, ret |-> << >>]

\* The popped entry stays in the array; ret is <<state>> for Some(state) and
\* << >> for None.
pop(h) ==
    IF h.count > 0
    THEN LET count == h.count - 1
             state == list_at(h, count)
             key == state.zobrist_hash
             repetitions ==
                 IF key \in Keys(h.repetitions)
                 THEN LET entry == Get(h.repetitions, key) - 1
                      IN  IF entry = 0
                          THEN h.repetitions \ {<<key, entry + 1>>}
                          ELSE (h.repetitions \ {<<key, entry + 1>>})
                                   \cup {<<key, entry>>}
                 ELSE h.repetitions
         IN  [history |-> [h EXCEPT !.count = count, !.repetitions = repetitions],
              ret |-> <<state>>]
    ELSE [history |-> h, ret |-> << >>]

\* index >= MAX_GAME_MOVES is out of bounds and is not asked here
get_ref(h, index) == list_at(h, index)

len(h) == h.count

\* the mutant: the occurrence counts survive the clear
clear_KeepsRepetitions(h) == [h EXCEPT !.count = 0]

clear(h) == [h EXCEPT !.count = 0, !.repetitions = {}]

is_threefold_repetition(h) == \E e \in h.repetitions : e[2] >= 3

\* the mutant: `count.saturating_sub(1)`, so that an empty History answers
\* from slot 0, whatever an earlier push left there
is_fifty_move_rule_Saturating(h) ==
    [ret |-> list_at(h, IF h.count = 0 THEN 0 ELSE h.count - 1).half_move_clock
                 >= 100,
     panicked |-> FALSE]

\* the mutant: the slot after the newest entry is read (list[count])
is_fifty_move_rule_NextSlot(h) ==
    IF h.count = 0 THEN [ret |-> FALSE, panicked |-> TRUE]
    ELSE [ret |-> list_at(h, h.count).half_move_clock >= 100, panicked |-> FALSE]

\* count - 1 underflows on an empty History: the subtraction (checked build)
\* or the index usize::MAX (unchecked build) panics.
is_fifty_move_rule(h) ==
    IF h.count = 0 THEN [ret |-> FALSE, panicked |-> TRUE]
    ELSE [ret |-> list_at(h, h.count - 1).half_move_clock >= 100, panicked |-> FALSE]

-----------------------------------------------------------------------------
(* zorbist.rs.  The keys are successive outputs of
   ChaCha20Rng::seed_from_u64(42); each key is kept as the name of its slot
   in the tables, and a hash as the set of the keys XORed into it an odd
   number of times, so that XOR is the symmetric difference.  Hashes built
   from different sets of keys are thereby taken to be different u64s. *)

piece_keys(colour_index, piece_index, square) ==
    <<"piece_keys", colour_index, piece_index, square>>

side_to_move_key == <<"side_to_move_key", 0, 0, 0>>

castling_keys(castling_index) == <<"castling_keys", castling_index, 0, 0>>

en_passant_keys(file) == <<"en_passant_keys", file, 0, 0>>

\* `hash ^= key`
Xor(hash, key) == (hash \ {key}) \cup ({key} \ hash)

colour_index(colour) == IF colour = "White" THEN 0 ELSE 1

piece_index(kind) ==
    CASE kind = "Pawn" -> 0
      [] kind = "Knight" -> 1
      [] kind = "Bishop" -> 2
      [] kind = "Rook" -> 3
      [] kind = "Queen" -> 4
      [] kind = "King" -> 5

\* the four bits are distinct, so `index |= 1 << n` adds 2^n
get_castling_rights_index(b) ==
    (IF can_castle_kingside(b, "White") THEN 1 ELSE 0)
    + (IF can_castle_queenside(b, "White") THEN 2 ELSE 0)
    + (IF can_castle_kingside(b, "Black") THEN 4 ELSE 0)
    + (IF can_castle_queenside(b, "Black") THEN 8 ELSE 0)

\* the loop over the squares XORs one key per occupied square, all different
compute_hash(b) ==
    LET pieces ==
            {piece_keys(colour_index(piece_at(b, square).colour),
                        piece_index(piece_at(b, square).kind), square) :
                square \in {sq \in Squares : piece_at(b, sq) # None}}
        side == IF b.to_move = "Black" THEN Xor(pieces, side_to_move_key)
                ELSE pieces
        castling == Xor(side, castling_keys(get_castling_rights_index(b)))
    IN  IF b.en_passant_square # NoSquare
        THEN Xor(castling, en_passant_keys(b.en_passant_square[1] % 8))
        ELSE castling

-----------------------------------------------------------------------------
(* moves.rs: move generation and validated application on the array board.
   moves.rs adds these methods to an array BoardState (a grid of squares
   indexed board[row][col], and the side to move) that it imports from
   crate::board; that struct, its new(), clear_square and switch_turn are
   taken from the way moves.rs and its tests use them: row 0 is Black's
   home row, row 7 White's, column 0 the a-file, White moves first. *)

\* Square::Empty; Square::Full(piece) is the piece itself
Empty == [kind |-> "Empty", colour |-> "Empty"]

HomeRow ==
    <<"Rook", "Knight", "Bishop", "Queen", "King", "Bishop", "Knight", "Rook">>

Rows == 0 .. (BOARD_SIZE - 1)

ArrayBoard_new ==
    [board |->
        [row \in Rows |-> [col \in Rows |->
            CASE row = 0 -> Piece(HomeRow[col + 1], "Black")
              [] row = 1 -> Piece("Pawn", "Black")
              [] row = BOARD_SIZE - 2 -> Piece("Pawn", "White")
              [] row = BOARD_SIZE - 1 -> Piece(HomeRow[col + 1], "White")
              [] OTHER -> Empty]],
     to_move |-> "White"]

ArrayBoard_clear_square(b, row, col) == [b EXCEPT !.board[row][col] = Empty]

ArrayBoard_switch_turn(b) == [b EXCEPT !.to_move = opposite(@)]

\* Option<ChessMove>::None; Some(m) is <<m>>
NoMove == << >>

\* `r >= 0 && r < BOARD_SIZE as isize`
InRange(x) == x >= 0 /\ x < BOARD_SIZE

\* the moves pushed by consecutive steps of a loop, in order
RECURSIVE Concat(_)
Concat(ss) == IF ss = << >> THEN << >> ELSE Head(ss) \o Concat(Tail(ss))

\* one direction of rook_moves and bishop_moves, from (r, c) onwards: every
\* empty square, then the first occupied one if it holds an opposing piece
RECURSIVE ray_moves(_, _, _, _, _, _, _, _)
ray_moves(b, row, col, piece, r, c, dr, dc) ==
    LET target_row == r + dr
        target_col == c + dc
        here == ChessMove(<<row, col>>, <<target_row, target_col>>, "None")
    IN  IF ~InRange(target_row) \/ ~InRange(target_col) THEN << >>
        ELSE IF b.board[target_row][target_col] = Empty
        THEN <<here>> \o ray_moves(b, row, col, piece, target_row, target_col, dr, dc)
        ELSE IF b.board[target_row][target_col].colour # piece.colour
        THEN <<here>>
        ELSE << >>

\* the mutant: the third direction is repeated in place of the fourth
rook_moves_RepeatedDirection(b, row, col, piece) ==
    LET directions == << <<1, 0>>, <<-1, 0>>, <<0, 1>>, <<0, 1>> >>
    IN  Concat([i \in 1 .. 4 |->
            ray_moves(b, row, col, piece, row, col,
                      directions[i][1], directions[i][2])])

rook_moves(b, row, col, piece) ==
    LET directions == << <<1, 0>>, <<-1, 0>>, <<0, 1>>, <<0, -1>> >>
    IN  Concat([i \in 1 .. 4 |->
            ray_moves(b, row, col, piece, row, col,
                      directions[i][1], directions[i][2])])

bishop_moves(b, row, col, piece) ==
    LET directions == << <<1, 1>>, <<1, -1>>, <<-1, 1>>, <<-1, -1>> >>
    IN  Concat([i \in 1 .. 4 |->
            ray_moves(b, row, col, piece, row, col,
                      directions[i][1], directions[i][2])])

\* the loop body shared by knight_moves and king_moves: the squares at the
\* offsets of moveset that are on the board and empty or held by an
\* opposing piece
jump_moves(b, row, col, piece, moveset) ==
    Concat([i \in 1 .. Len(moveset) |->
        LET r == row + moveset[i][1]
            c == col + moveset[i][2]
        IN  IF InRange(r) /\ InRange(c)
               /\ (b.board[r][c] = Empty \/ b.board[r][c].colour # piece.colour)
            THEN <<ChessMove(<<row, col>>, <<r, c>>, "None")>>
            ELSE << >>])

\* the mutant: the last offset repeats (-1, 2) instead of (-1, -2)
knight_moves_RepeatedOffset(b, row, col, piece) ==
    jump_moves(b, row, col, piece,
        << <<2, 1>>, <<2, -1>>, <<-2, 1>>, <<-2, -1>>,
           <<1, 2>>, <<1, -2>>, <<-1, 2>>, <<-1, 2>> >>)

knight_moves(b, row, col, piece) ==
    jump_moves(b, row, col, piece,
        << <<2, 1>>, <<2, -1>>, <<-2, 1>>, <<-2, -1>>,
           <<1, 2>>, <<1, -2>>, <<-1, 2>>, <<-1, -2>> >>)

king_moves(b, row, col, piece) ==
    jump_moves(b, row, col, piece,
        << <<1, 0>>, <<-1, 0>>, <<0, 1>>, <<0, -1>>,
           <<1, 1>>, <<1, -1>>, <<-1, 1>>, <<-1, -1>> >>)

PromotionKinds == <<"Queen", "Rook", "Bishop", "Knight">>

\* pawn_moves returns the moves it pushed, or panics: the capture loop
\* indexes board[(row + forward) as usize] without a range check, so for a
\* pawn on its farthest row the index (usize::MAX, or BOARD_SIZE) is out of
\* bounds in the first capture column that is on the board.
pawn_moves(b, row, col, piece, last_move) ==
    LET forward == IF piece.colour = "White" THEN -1 ELSE 1
        from == <<row, col>>
        target_row == row + forward
        last_rank == \/ (piece.colour = "White" /\ target_row = 0)
                     \/ (piece.colour = "Black" /\ target_row = BOARD_SIZE - 1)
        promotions(to) == [i \in 1 .. 4 |-> ChessMove(from, to, PromotionKinds[i])]
        starting_rank == IF piece.colour = "White" THEN 6 ELSE 1
        double_row == row + forward * 2
        forward_moves ==
            IF InRange(target_row) /\ b.board[target_row][col] = Empty
            THEN (IF last_rank THEN promotions(<<target_row, col>>)
                  ELSE <<ChessMove(from, <<target_row, col>>, "None")>>)
                 \o (IF row = starting_rank /\ b.board[double_row][col] = Empty
                     THEN <<ChessMove(from, <<double_row, col>>, "None")>>
                     ELSE << >>)
            ELSE << >>
        capture_moves(col_offset) ==
            LET target_col == col + col_offset
                target_piece == b.board[target_row][target_col]
                lm == last_move[1]
                last_piece == b.board[lm.to[1]][lm.to[2]]
            IN  IF ~InRange(target_col) THEN << >>
                ELSE (IF target_piece # Empty /\ target_piece.colour # piece.colour
                      THEN IF last_rank THEN promotions(<<target_row, col>>)
                           ELSE <<ChessMove(from, <<target_row, target_col>>, "None")>>
                      ELSE << >>)
                     \o (IF /\ last_move # NoMove
                            /\ last_piece # Empty
                            /\ last_piece.kind = "Pawn"
                            /\ last_piece.colour # piece.colour
                            /\ abs(lm.from[1] - lm.to[1]) = 2
                            /\ abs(lm.to[2] - col) = 1
                         THEN <<ChessMove(from, <<target_row, lm.to[2]>>, "None")>>
                         ELSE << >>)
    IN  IF ~InRange(target_row)
        THEN [moves |-> << >>, panicked |-> TRUE]
        ELSE [moves |-> forward_moves \o capture_moves(-1) \o capture_moves(1),
              panicked |-> FALSE]

\* [moves, panicked]: the Vec returned, or the panic of pawn_moves
valid_moves(b, row, col, last_move) ==
    LET piece == b.board[row][col]
        direction == IF piece.colour = "White" THEN -1 ELSE 1
        lm == last_move[1]
        last_piece == b.board[lm.to[1]][lm.to[2]]
        en_passant ==
            IF /\ piece.kind = "Pawn"
               /\ last_move # NoMove
               /\ last_piece # Empty
               /\ lm.from[1] - lm.to[1] = 2 * direction
               /\ last_piece.kind = "Pawn"
               /\ abs(lm.to[2] - col) = 1
            THEN <<ChessMove(<<row, col>>, <<lm.to[1] + direction, lm.to[2]>>, "None")>>
            ELSE << >>
        pawn == pawn_moves(b, row, col, piece, last_move)
    IN  IF piece = Empty \/ piece.colour # b.to_move
        THEN [moves |-> << >>, panicked |-> FALSE]
        ELSE IF piece.kind = "Pawn"
        THEN [moves |-> IF pawn.panicked THEN << >> ELSE en_passant \o pawn.moves,
              panicked |-> pawn.panicked]
        ELSE [moves |->
                CASE piece.kind = "Rook" -> rook_moves(b, row, col, piece)
                  [] piece.kind = "Knight" -> knight_moves(b, row, col, piece)
                  [] piece.kind = "Bishop" -> bishop_moves(b, row, col, piece)
                  [] piece.kind = "Queen" ->
                        rook_moves(b, row, col, piece) \o bishop_moves(b, row, col, piece)
                  [] piece.kind = "King" -> king_moves(b, row, col, piece),
              panicked |-> FALSE]

\* moves.rs apply_move, [board, ret, panicked]: ret is "Ok" or "Err", or
\* "Panic" when the call did not return. The en-passant test reads
\* board[to] after the moving piece was written there.
moves_apply_move(b, chess_move, last_move) ==
    LET from_row == chess_move.from[1]
        from_col == chess_move.from[2]
        to_row == chess_move.to[1]
        to_col == chess_move.to[2]
        generated == valid_moves(b, from_row, from_col, last_move)
        valid == \E i \in 1 .. Len(generated.moves) :
                    /\ generated.moves[i].to = chess_move.to
                    /\ generated.moves[i].promotion = chess_move.promotion
        moving_piece == b.board[from_row][from_col]
        b1 == [b EXCEPT !.board[to_row][to_col] = moving_piece]
        b2 == ArrayBoard_clear_square(b1, from_row, from_col)
        lm == last_move[1]
        last_piece == b2.board[lm.to[1]][lm.to[2]]
        en_passant ==
            /\ last_move # NoMove
            /\ moving_piece # Empty
            /\ moving_piece.kind = "Pawn"
            /\ abs(from_row - to_row) = 1
            /\ abs(from_col - to_col) = 1
            /\ b2.board[to_row][to_col] = Empty
            /\ last_piece # Empty
            /\ last_piece.kind = "Pawn"
            /\ last_piece.colour # moving_piece.colour
            /\ abs(lm.to[1] - lm.from[1]) = 2
            /\ lm.to[2] = to_col
        captured_pawn_row ==
            IF moving_piece.colour = "White" THEN to_row + 1 ELSE to_row - 1
        b3 == IF en_passant
              THEN ArrayBoard_clear_square(b2, captured_pawn_row, to_col)
              ELSE b2
        promotion_kind == chess_move.promotion
        piece == b3.board[to_row][to_col]
        b4 == IF promotion_kind # "None" /\ piece # Empty /\ piece.kind = "Pawn"
              THEN [b3 EXCEPT !.board[to_row][to_col] =
                                    Piece(promotion_kind, piece.colour)]
              ELSE b3
    IN  IF generated.panicked
        THEN [board |-> b, ret |-> "Panic", panicked |-> TRUE]
        ELSE IF ~valid
        THEN [board |-> b, ret |-> "Err", panicked |-> FALSE]
        ELSE IF en_passant /\ ~InRange(captured_pawn_row)
        THEN [board |-> b2, ret |-> "Panic", panicked |-> TRUE]
        ELSE IF promotion_kind # "None" /\ ~(to_row = 0 \/ to_row = BOARD_SIZE - 1)
        THEN [board |-> b3, ret |-> "Err", panicked |-> FALSE]
        ELSE IF promotion_kind # "None" /\ piece # Empty /\ piece.kind # "Pawn"
        THEN [board |-> b3, ret |-> "Err", panicked |-> FALSE]
        ELSE [board |-> ArrayBoard_switch_turn(b4), ret |-> "Ok",
              panicked |-> FALSE]

-----------------------------------------------------------------------------
(* Spec: a BoardState built by new() and driven through its public mutating
   methods, at most MaxSteps calls. *)

\* squares given to set_piece_at: a1 (a white rook at the start), e2 (a white
\* pawn), f5 (empty)
SetSquares == {0, 12, 37}

\* origins given to apply_move: b1 (knight), e1 (the white king), e2 and d7
\* (pawns), f5 (empty at the start, any piece after set_piece_at)
FromSquares == {1, 4, 12, 37, 51}

\* destinations: e3, e4, d5 (empty), e8 (the black king)
ToSquares == {20, 28, 35, 60}

Promotions == {"None", "Queen"}

Moves == {ChessMove(f, t, p) : f \in FromSquares, t \in ToSquares, p \in Promotions}

RightsInputs ==
    { <<TRUE, TRUE, TRUE, TRUE>>, <<FALSE, TRUE, TRUE, FALSE>>,
      <<TRUE, FALSE, FALSE, TRUE>> }

Init ==
    /\ board = BoardState_new
    /\ history = History_new
    /\ panicked = FALSE
    /\ last = [op |-> "new"]
    /\ called = {}
    /\ steps = 0
    /\ pushed = << >>
    /\ array_board = ArrayBoard_new

SetPieceAt(square, piece) ==
    /\ ~panicked
    /\ steps < MaxSteps
    /\ board' = set_piece_at(board, square, piece)
    /\ last' = [op |-> "set_piece_at", square |-> square, piece |-> piece,
                pre |-> board]
    /\ called' = called \cup {"set_piece_at"}
    /\ steps' = steps + 1
    /\ UNCHANGED <<history, panicked, pushed, array_board>>

ApplyMove(chess_move) ==
    /\ ~panicked
    /\ steps < MaxSteps
    /\ LET r == apply_move(board, chess_move)
       IN  /\ board' = r.board
           /\ panicked' = r.panicked
    /\ last' = [op |-> "apply_move", move |-> chess_move, pre |-> board]
    /\ called' = called \cup {"apply_move"}
    /\ steps' = steps + 1
    /\ UNCHANGED <<history, pushed, array_board>>

FlipTurn ==
    /\ ~panicked
    /\ steps < MaxSteps
    /\ board' = flip_turn(board)
    /\ last' = [op |-> "flip_turn", pre |-> board]
    /\ called' = called \cup {"flip_turn"}
    /\ steps' = steps + 1
    /\ UNCHANGED <<history, panicked, pushed, array_board>>

UpdateCastlingRights(r) ==
    /\ ~panicked
    /\ steps < MaxSteps
    /\ board' = update_castling_rights(board, r[1], r[2], r[3], r[4])
    /\ last' = [op |-> "update_castling_rights", rights |-> r, pre |-> board]
    /\ called' = called \cup {"update_castling_rights"}
    /\ steps' = steps + 1
    /\ UNCHANGED <<history, panicked, pushed, array_board>>

Next ==
    \/ \E square \in SetSquares, piece \in Pieces : SetPieceAt(square, piece)
    \/ \E chess_move \in Moves : ApplyMove(chess_move)
    \/ FlipTurn
    \/ \E r \in RightsInputs : UpdateCastlingRights(r)

Spec == Init /\ [][Next]_vars

-----------------------------------------------------------------------------
(* Claims about the mutating methods, checked under Spec *)

\* the 12 sets of b that hold the square
SetsHolding(b, square) ==
    {i \in 1 .. 12 : BitBoard_is_set(b[PieceSets[i]], square)}

UnionOf(b, names) == UNION {b[n] : n \in names}

\* C1: immediately after set_piece_at(s, p), piece_at(s) returns exactly p,
\* whatever piece occupied s before the call.
C1_SetThenGet ==
    last.op = "set_piece_at" => piece_at(board, last.square) = last.piece

\* C2: set_piece_at(s, p) changes nothing but square s: piece_at(t) is the
\* same before and after for every t # s, and side to move, the castling
\* rights and the en-passant target are unchanged.
C2_SetPieceAtFrame ==
    last.op = "set_piece_at" =>
        /\ \A t \in Squares \ {last.square} :
              piece_at(board, t) = piece_at(last.pre, t)
        /\ board.to_move = last.pre.to_move
        /\ board.castling_rights = last.pre.castling_rights
        /\ board.en_passant_square = last.pre.en_passant_square

\* C2's case: set_piece_at overwrote a different piece, on a board that an
\* earlier call had already changed away from the start position's turn,
\* rights or en-passant target.
C2_Witness ==
    /\ last.op = "set_piece_at"
    /\ piece_at(last.pre, last.square) \notin {None, last.piece}
    /\ piece_at(board, last.square) = last.piece
    /\ last.pre.en_passant_square # NoSquare

\* C3: in every position reached from new() by apply_move calls alone (each
\* from an occupied origin), all_pieces is the union of the 12 sets, all_white
\* and all_black are the unions of their six sets, and the two are disjoint.
C3_Aggregates ==
    (called \subseteq {"apply_move"} /\ ~panicked) =>
        /\ board.all_pieces = UnionOf(board, WhiteSets \cup BlackSets)
        /\ board.all_white = UnionOf(board, WhiteSets)
        /\ board.all_black = UnionOf(board, BlackSets)
        /\ board.all_white \cap board.all_black = {}

\* C4: in every position reached from new() by set_piece_at and apply_move
\* calls, each square is a member of at most one of the 12 piece sets.
C4_AtMostOneSet ==
    (called \subseteq {"set_piece_at", "apply_move"}) =>
        \A square \in Squares : Cardinality(SetsHolding(board, square)) <= 1

\* C5: after every apply_move from an occupied origin the en-passant target
\* is (from + to) / 2 if the moved piece is a pawn and the rank difference is
\* exactly 2, and None otherwise; a pawn moving 51 to 35 sets it to 43.
C5_EnPassantRule ==
    (last.op = "apply_move" /\ piece_at(last.pre, last.move.from) # None) =>
        LET from == last.move.from
            to == last.move.to
            moved == piece_at(last.pre, from)
            double == moved.kind = "Pawn" /\ abs((to \div 8) - (from \div 8)) = 2
        IN  /\ ~panicked
            /\ double => board.en_passant_square = Some((from + to) \div 2)
            /\ ~double => board.en_passant_square = NoSquare
            /\ (from = 51 /\ to = 35 /\ moved.kind = "Pawn")
                   => board.en_passant_square = Some(43)

\* C5's case: the pawn move 51 to 35 set the target to 43 and the next move,
\* not a double step, cleared it.
C5_Witness ==
    /\ last.op = "apply_move"
    /\ piece_at(last.pre, last.move.from) # None
    /\ last.pre.en_passant_square = Some(43)
    /\ board.en_passant_square = NoSquare

\* C9: apply_move from an empty origin square aborts, and nothing of the
\* position has changed when it does.
C9_EmptyOriginAborts ==
    (last.op = "apply_move" /\ piece_at(last.pre, last.move.from) = None) =>
        /\ panicked
        /\ board = last.pre

\* C9's case: a move from an empty square was applied while an en-passant
\* target was set and Black was to move.
C9_Witness ==
    /\ last.op = "apply_move"
    /\ piece_at(last.pre, last.move.from) = None
    /\ last.pre.en_passant_square # NoSquare
    /\ last.pre.to_move = "Black"
    /\ panicked

-----------------------------------------------------------------------------
(* SpecQuery: the read-only queries is_square_safe and can_castle_*, asked
   of positions built from new() by the public methods (and, as the tests do,
   by clearing bits of the public field all_pieces). *)

\* `board.all_pieces.clear(square)`, as in tests::test_castling_rights
all_pieces_clear(b, squares) ==
    [b EXCEPT !.all_pieces = @ \ squares]

\* tests::test_castling_rights after f1 and g1 are cleared
test_castling_rights_kingside_board ==
    all_pieces_clear(BoardState_new, {5, 6})

\* tests::test_castling_rights after b1, c1 and d1 are cleared as well
test_castling_rights_queenside_board ==
    all_pieces_clear(test_castling_rights_kingside_board, {1, 2, 3})

\* tests::test_castling_kingside_under_attack: a black rook put on 37
test_castling_kingside_under_attack_board ==
    set_piece_at(test_castling_rights_kingside_board, 37, Piece("Rook", "Black"))

\* tests::test_castling_queenside_under_attack: a black bishop put on 42
test_castling_queenside_under_attack_board ==
    set_piece_at(all_pieces_clear(BoardState_new, {1, 2, 3}), 42,
                 Piece("Bishop", "Black"))

\* f1 and g1 vacated and a black rook put on f2 (13), in the place of the pawn
rook_on_f2_board ==
    set_piece_at(test_castling_rights_kingside_board, 13, Piece("Rook", "Black"))

\* f1 and g1 vacated and a white pawn put on e1 (4), in front of the king in
\* the order of piece_at
pawn_on_e1_board ==
    set_piece_at(test_castling_rights_queenside_board, 4, Piece("Pawn", "White"))

\* The white king moved to e8 and the white rook to h8 by apply_move, then
\* d8, f8 and g8 rewritten by set_piece_at (which clears their bits of
\* all_pieces); White is to move again after the two moves.
white_on_black_home_board ==
    LET b1 == apply_move(BoardState_new, ChessMove(4, 60, "None")).board
        b2 == apply_move(b1, ChessMove(7, 63, "None")).board
        b3 == set_piece_at(b2, 59, Piece("Pawn", "Black"))
        b4 == set_piece_at(b3, 61, Piece("Bishop", "Black"))
    IN  set_piece_at(b4, 62, Piece("Knight", "Black"))

BasePositions ==
    { BoardState_new,
      test_castling_rights_kingside_board,
      test_castling_rights_queenside_board,
      test_castling_kingside_under_attack_board,
      test_castling_queenside_under_attack_board,
      rook_on_f2_board,
      pawn_on_e1_board,
      white_on_black_home_board }

\* every base position, with each of the rights vectors set by
\* update_castling_rights and with either side to move (flip_turn)
Positions ==
    LET withRights ==
            { update_castling_rights(b, r[1], r[2], r[3], r[4]) :
                  b \in BasePositions, r \in RightsInputs }
    IN  withRights \cup { flip_turn(b) : b \in withRights }

InitQuery ==
    /\ board \in Positions
    /\ history = History_new
    /\ panicked = FALSE
    /\ last = [op |-> "new"]
    /\ called = {}
    /\ steps = 0
    /\ pushed = << >>
    /\ array_board = ArrayBoard_new

IsSquareSafe(square) ==
    /\ last' = [op |-> "is_square_safe", square |-> square,
                ret |-> is_square_safe(board, square)]
    /\ UNCHANGED <<board, history, panicked, called, steps, pushed, array_board>>

CanCastleKingside(colour) ==
    /\ last' = [op |-> "can_castle_kingside", colour |-> colour,
                ret |-> can_castle_kingside(board, colour)]
    /\ UNCHANGED <<board, history, panicked, called, steps, pushed, array_board>>

CanCastleQueenside(colour) ==
    /\ last' = [op |-> "can_castle_queenside", colour |-> colour,
                ret |-> can_castle_queenside(board, colour)]
    /\ UNCHANGED <<board, history, panicked, called, steps, pushed, array_board>>

GetCastlingRightsIndex ==
    /\ last' = [op |-> "get_castling_rights_index",
                ret |-> get_castling_rights_index(board)]
    /\ UNCHANGED <<board, history, panicked, called, steps, pushed, array_board>>

ComputeHash ==
    /\ last' = [op |-> "compute_hash", ret |-> compute_hash(board)]
    /\ UNCHANGED <<board, history, panicked, called, steps, pushed, array_board>>

NextQuery ==
    \/ \E square \in Squares : IsSquareSafe(square)
    \/ \E colour \in Colours : CanCastleKingside(colour)
    \/ \E colour \in Colours : CanCastleQueenside(colour)
    \/ GetCastlingRightsIndex
    \/ ComputeHash

SpecQuery == InitQuery /\ [][NextQuery]_vars

-----------------------------------------------------------------------------
(* Claims about the queries, checked under SpecQuery *)

row_of(square) == square \div 8

col_of(square) == square % 8

\* the squares strictly between two squares of one row, column or diagonal
Between(s, t) ==
    LET dr == row_of(t) - row_of(s)
        dc == col_of(t) - col_of(s)
        n == IF abs(dr) > abs(dc) THEN abs(dr) ELSE abs(dc)
    IN  { 8 * (row_of(s) + (dr \div n) * k) + (col_of(s) + (dc \div n) * k) :
              k \in 1 .. (n - 1) }

\* The piece on t attacks s under chess geometry on the 8x8 board.
Attacks(b, t, s) ==
    LET piece == piece_at(b, t)
        dr == row_of(s) - row_of(t)
        dc == col_of(s) - col_of(t)
        straight == (dr = 0) # (dc = 0)
        diagonal == abs(dr) = abs(dc) /\ dr # 0
        clear_line == \A m \in Between(t, s) : piece_at(b, m) = None
    IN  CASE piece.kind = "Pawn" ->
                 /\ abs(dc) = 1
                 /\ dr = IF piece.colour = "White" THEN 1 ELSE -1
          [] piece.kind = "Knight" ->
                 {abs(dr), abs(dc)} = {1, 2}
          [] piece.kind = "King" ->
                 t # s /\ abs(dr) <= 1 /\ abs(dc) <= 1
          [] piece.kind = "Bishop" -> diagonal /\ clear_line
          [] piece.kind = "Rook" -> straight /\ clear_line
          [] piece.kind = "Queen" -> (straight \/ diagonal) /\ clear_line
          [] OTHER -> FALSE

AttackedBy(b, colour, s) ==
    \E t \in Squares : piece_at(b, t).colour = colour /\ Attacks(b, t, s)

\* C6: from new() with White to move and f1, g1 cleared from all_pieces,
\* can_castle_kingside(White) is true; with a black rook then put on 37 by
\* set_piece_at it is false.
C6_CastlingGating ==
    (last.op = "can_castle_kingside" /\ last.colour = "White") =>
        /\ board = test_castling_rights_kingside_board => last.ret
        /\ board = test_castling_kingside_under_attack_board => ~last.ret

\* C7: can_castle_*(c) is true iff c's rights flag for the side is set, the
\* squares between king and rook are not in all_pieces, the king-path squares
\* are safe per is_square_safe, and c's own king and c's own rook stand on
\* their origin squares.
C7_CastleIff ==
    (last.op \in {"can_castle_kingside", "can_castle_queenside"}) =>
        LET c == last.colour
            kingside == last.op = "can_castle_kingside"
            home == IF c = "White" THEN 0 ELSE 56
            flag == CASE kingside /\ c = "White" -> 0
                      [] ~kingside /\ c = "White" -> 1
                      [] kingside /\ c = "Black" -> 2
                      [] ~kingside /\ c = "Black" -> 3
            between == IF kingside THEN {home + 5, home + 6}
                                   ELSE {home + 1, home + 2, home + 3}
            path == IF kingside THEN {home + 4, home + 5, home + 6}
                                ELSE {home + 2, home + 3, home + 4}
            rook_square == IF kingside THEN home + 7 ELSE home
        IN  last.ret <=>
                /\ board.castling_rights[flag]
                /\ between \cap board.all_pieces = {}
                /\ \A sq \in path : is_square_safe(board, sq)
                /\ piece_at(board, home + 4) = Piece("King", c)
                /\ piece_at(board, rook_square) = Piece("Rook", c)

\* C8: is_square_safe(s) is true iff no piece of the colour opposite to the
\* side to move attacks s under chess geometry, without wrapping between the
\* h-file and the a-file.
C8_SafeIffNotAttacked ==
    last.op = "is_square_safe" =>
        (last.ret <=> ~AttackedBy(board, opposite(board.to_move), last.square))

-----------------------------------------------------------------------------
(* SpecHistory: a History built by new() and driven through push, pop and
   clear, holding at most MaxLen entries, with the two draw queries. *)

\* the fingerprints and half-move clocks of the tests
Hashes == {12345, 67890}

Clocks == {90, 100}

GameStates == {GameState(z, c) : z \in Hashes, c \in Clocks}

InitHistory ==
    /\ board = BoardState_new
    /\ history = History_new
    /\ panicked = FALSE
    /\ last = [op |-> "new"]
    /\ called = {}
    /\ steps = 0
    /\ pushed = << >>
    /\ array_board = ArrayBoard_new

\* lengths explored: 0 .. MaxLen, and MAX_GAME_MOVES - MaxSlack .. MAX_GAME_MOVES
Push(g) ==
    /\ ~panicked
    /\ history.count < MaxLen \/ history.count >= MAX_GAME_MOVES - MaxSlack
    /\ LET r == push(history, g)
       IN  /\ history' = r.history
           /\ panicked' = r.panicked
           /\ pushed' = IF r.panicked THEN pushed ELSE Append(pushed, g)
    /\ last' = [op |-> "push", g |-> g, pre |-> history]
    /\ UNCHANGED <<board, called, steps, array_board>>

Pop ==
    /\ ~panicked
    /\ history.count # MAX_GAME_MOVES - MaxSlack
    /\ LET r == pop(history)
       IN  /\ history' = r.history
           /\ last' = [op |-> "pop", ret |-> r.ret, pre |-> history,
                       pre_pushed |-> pushed]
    /\ pushed' = IF pushed = << >> THEN pushed
                 ELSE SubSeq(pushed, 1, Len(pushed) - 1)
    /\ UNCHANGED <<board, panicked, called, steps, array_board>>

Clear ==
    /\ ~panicked
    /\ history' = clear(history)
    /\ last' = [op |-> "clear", pre |-> history]
    /\ pushed' = << >>
    /\ UNCHANGED <<board, panicked, called, steps, array_board>>

IsThreefoldRepetition ==
    /\ ~panicked
    /\ last' = [op |-> "is_threefold_repetition",
                ret |-> is_threefold_repetition(history), pre |-> history]
    /\ UNCHANGED <<board, history, panicked, called, steps, pushed, array_board>>

IsFiftyMoveRule ==
    /\ ~panicked
    /\ LET r == is_fifty_move_rule(history)
       IN  /\ panicked' = r.panicked
           /\ last' = [op |-> "is_fifty_move_rule", ret |-> r.ret, pre |-> history]
    /\ UNCHANGED <<board, history, called, steps, pushed, array_board>>

GetLen ==
    /\ ~panicked
    /\ last' = [op |-> "len", ret |-> len(history), pre |-> history]
    /\ UNCHANGED <<board, history, panicked, called, steps, pushed, array_board>>

GetRef(index) ==
    /\ ~panicked
    /\ last' = [op |-> "get_ref", index |-> index,
                ret |-> get_ref(history, index), pre |-> history]
    /\ UNCHANGED <<board, history, panicked, called, steps, pushed, array_board>>

NextHistory ==
    \/ \E g \in GameStates : Push(g)
    \/ Pop
    \/ Clear
    \/ IsThreefoldRepetition
    \/ IsFiftyMoveRule
    \/ GetLen
    \/ \E index \in 0 .. MaxLen : GetRef(index)

SpecHistory == InitHistory /\ [][NextHistory]_vars

-----------------------------------------------------------------------------
(* Claims about the History, checked under SpecHistory *)

\* the indices of the stored entries with fingerprint z
Occurrences(h, z) ==
    {i \in 0 .. (h.count - 1) : list_at(h, i).zobrist_hash = z}

\* C10: after any sequence of push, pop and clear, is_threefold_repetition()
\* is true iff some fingerprint occurs at least three times among the stored
\* entries (indices 0..len-1).
C10_ThreefoldIff ==
    last.op = "is_threefold_repetition" =>
        (last.ret <=> \E z \in Hashes : Cardinality(Occurrences(history, z)) >= 3)

\* C10's case: one fingerprint was pushed three times and the third
\* occurrence popped again (it is still in the array, past the count), and
\* the query then answers false.
C10_Witness ==
    /\ last.op = "is_threefold_repetition"
    /\ ~last.ret
    /\ history.count = 2
    /\ Len(history.list) >= 3
    /\ \A i \in 0 .. 2 : list_at(history, i).zobrist_hash = 12345

\* C11: on a non-empty History is_fifty_move_rule() returns, and is true iff
\* the half-move clock of the entry pushed last and not popped since is at
\* least 100; an older entry with a clock of 100 or more does not make it true.
C11_FiftyMoveIff ==
    (last.op = "is_fifty_move_rule" /\ pushed # << >>) =>
        /\ ~panicked
        /\ last.ret <=> pushed[Len(pushed)].half_move_clock >= 100

\* C11's case: an entry with clock 100 was pushed, then one with clock 90,
\* and the query answers false.
C11_Witness ==
    /\ last.op = "is_fifty_move_rule"
    /\ ~last.ret
    /\ Len(pushed) = 2
    /\ pushed[1].half_move_clock = 100
    /\ pushed[2].half_move_clock = 90

\* C12: the History is a last-in-first-out stack. len() is the number of
\* pushes not undone; get_ref(i), i < len(), is the i-th entry in push order;
\* pop() returns the entry pushed last and lowers len() by one, and on an
\* empty History returns None and changes nothing; clear() leaves len() = 0
\* and is_threefold_repetition() false.
C12_Lifo ==
    /\ last.op = "len" => last.ret = Len(pushed)
    /\ (last.op = "get_ref" /\ last.index < Len(pushed)) =>
            last.ret = pushed[last.index + 1]
    /\ last.op = "pop" =>
            IF last.pre_pushed = << >>
            THEN last.ret = << >> /\ history = last.pre
            ELSE /\ last.ret = <<last.pre_pushed[Len(last.pre_pushed)]>>
                 /\ len(history) = len(last.pre) - 1
    /\ last.op = "clear" =>
            len(history) = 0 /\ ~is_threefold_repetition(history)

\* C12's case: of two different entries pushed one after the other, pop()
\* returned the second and left the first as the only stored entry.
C12_Witness ==
    /\ last.op = "pop"
    /\ Len(last.pre_pushed) = 2
    /\ last.pre_pushed[1] # last.pre_pushed[2]
    /\ last.ret = <<last.pre_pushed[2]>>
    /\ len(history) = 1
    /\ get_ref(history, 0) = last.pre_pushed[1]

-----------------------------------------------------------------------------
(* SpecHistoryFull: a History that new() and MAX_GAME_MOVES - MaxSlack pushes
   have brought within MaxSlack entries of its capacity, driven through push
   and pop up to the capacity and beyond. *)

\* the History after new() and n >= 1 calls push(g): slots 0 .. n - 1 hold g,
\* count is n and the map counts g's fingerprint n times
PushedTimes(n, g) ==
    [list |-> [i \in 1 .. n |-> g],
     count |-> n,
     repetitions |-> {<<g.zobrist_hash, n>>}]

InitHistoryFull ==
    /\ board = BoardState_new
    /\ history = PushedTimes(MAX_GAME_MOVES - MaxSlack, GameState(12345, 0))
    /\ panicked = FALSE
    /\ last = [op |-> "new"]
    /\ called = {}
    /\ steps = 0
    /\ pushed = [i \in 1 .. (MAX_GAME_MOVES - MaxSlack) |-> GameState(12345, 0)]
    /\ array_board = ArrayBoard_new

NextHistoryFull ==
    \/ \E g \in GameStates : Push(g)
    \/ Pop
    \/ GetLen

SpecHistoryFull == InitHistoryFull /\ [][NextHistoryFull]_vars

\* C13: a History never holds more than MAX_GAME_MOVES entries: push() on a
\* History with len() = MAX_GAME_MOVES aborts, and leaves len(), the stored
\* entries and the occurrence counts as they were.
C13_CapacityAbort ==
    /\ len(history) <= MAX_GAME_MOVES
    /\ (last.op = "push" /\ len(last.pre) = MAX_GAME_MOVES) =>
            /\ panicked
            /\ history = last.pre
    /\ (last.op = "push" /\ len(last.pre) < MAX_GAME_MOVES) => ~panicked

\* C13's case: push() was called on a History of MAX_GAME_MOVES entries.
C13_Witness ==
    /\ last.op = "push"
    /\ len(last.pre) = MAX_GAME_MOVES
    /\ Len(pushed) = MAX_GAME_MOVES
    /\ panicked

-----------------------------------------------------------------------------
(* SpecGenerate: valid_moves asked of array boards, for every square and
   with and without a last move. *)

\* moves by name: file a-h is column 0-7, rank 1-8 is row 7-0
e2e4 == ChessMove(<<6, 4>>, <<4, 4>>, "None")
e4e5 == ChessMove(<<4, 4>>, <<3, 4>>, "None")
a7a6 == ChessMove(<<1, 0>>, <<2, 0>>, "None")
h7h6 == ChessMove(<<1, 7>>, <<2, 7>>, "None")
a2a3 == ChessMove(<<6, 0>>, <<5, 0>>, "None")
d7d5 == ChessMove(<<1, 3>>, <<3, 3>>, "None")
e5d6 == ChessMove(<<3, 4>>, <<2, 3>>, "None")
e7d8 == ChessMove(<<1, 4>>, <<0, 3>>, "None")
e7e8 == ChessMove(<<1, 4>>, <<0, 4>>, "None")
d8c8 == ChessMove(<<0, 3>>, <<0, 2>>, "None")
b1c3 == ChessMove(<<7, 1>>, <<5, 2>>, "None")

\* the board after the moves of `line`, given as <<move, last_move>> pairs
RECURSIVE Played(_, _)
Played(b, line) ==
    IF line = << >> THEN b
    ELSE Played(moves_apply_move(b, line[1][1], line[1][2]).board, Tail(line))

\* 1. e4 a6 2. e5: a white pawn on its fifth rank, Black to move
pawn_on_e5_board ==
    Played(ArrayBoard_new,
           << <<e2e4, NoMove>>, <<a7a6, Some(e2e4)>>, <<e4e5, Some(a7a6)>> >>)

\* test_pawn_promotion: a white pawn written onto e7
test_pawn_promotion_board ==
    [ArrayBoard_new EXCEPT !.board[1][4] = Piece("Pawn", "White")]

\* the same after 1. a3: Black to move
pawn_on_e7_board ==
    Played(test_pawn_promotion_board, << <<a2a3, NoMove>> >>)

\* the same after 1. ... d5 2. exd8 (accepted without a promotion kind)
\* h6: a white pawn on row 0, White to move
pawn_on_d8_board ==
    Played(pawn_on_e7_board,
           << <<d7d5, Some(a2a3)>>, <<e7d8, Some(d7d5)>>, <<h7h6, Some(e7d8)>> >>)

\* 1. a3 d5: Black's d-pawn has just made its double step, White to move
after_a3_d5_board ==
    Played(ArrayBoard_new, << <<a2a3, NoMove>>, <<d7d5, Some(a2a3)>> >>)

EmptyArrayBoard(to_move) ==
    [board |-> [row \in Rows |-> [col \in Rows |-> Empty]],
     to_move |-> to_move]

\* a board cleared as in test_bishop_moves, with one piece placed on it
LonePiece(piece, row, col, to_move) ==
    [EmptyArrayBoard(to_move) EXCEPT !.board[row][col] = piece]

\* where the sliding pieces are put: two corners, two edges, two inner squares
SliderSquares ==
    {<<0, 0>>, <<7, 7>>, <<3, 7>>, <<7, 4>>, <<3, 3>>, <<4, 2>>}

\* a piece of the slider's own colour in its way, or none (off the board)
FriendSquares == {<<8, 8>>, <<3, 5>>, <<5, 5>>}

\* an opposing piece in its way, or none (off the board)
FoeSquares == {<<8, 8>>, <<3, 1>>, <<1, 1>>, <<3, 6>>}

\* board.board[rc.0][rc.1] = Square::Full(piece), when rc is on the board
Placed(b, rc, piece) ==
    IF rc[1] \in Rows /\ rc[2] \in Rows
    THEN [b EXCEPT !.board[rc[1]][rc[2]] = piece]
    ELSE b

\* a rook, bishop or queen of the side to move on a cleared board, with up
\* to one pawn of each colour standing on its lines
SliderPositions ==
    {Placed(Placed(Placed(EmptyArrayBoard(colour),
                          friend, Piece("Pawn", colour)),
                   foe, Piece("Pawn", opposite(colour))),
            at, Piece(kind, colour)) :
        kind \in {"Rook", "Bishop", "Queen"}, colour \in Colours,
        at \in SliderSquares, friend \in FriendSquares, foe \in FoeSquares}

\* where the pawns are put: on either starting rank (also on the a-file),
\* mid-board beside the square a double step of d7-d5 or e2-e4 ends on, and
\* one step from either farthest rank
PawnSquares ==
    {<<6, 4>>, <<6, 0>>, <<3, 4>>, <<1, 4>>,
     <<1, 3>>, <<1, 0>>, <<4, 3>>, <<6, 3>>}

\* a pawn of the side to move with, or without, a pawn of its own or an
\* opposing one straight ahead, an opposing pawn two steps ahead, an
\* opposing knight diagonally ahead on either side, and the opposing pawn
\* that d7-d5 or e2-e4 has just moved
PawnPositions ==
    {LET forward == IF colour = "White" THEN -1 ELSE 1
         foe == opposite(colour)
         Off == <<8, 8>>
         b1 == Placed(EmptyArrayBoard(colour),
                      IF passed THEN (IF colour = "White" THEN d7d5.to ELSE e2e4.to)
                      ELSE Off, Piece("Pawn", foe))
         b2 == Placed(b1, IF ahead2 THEN <<at[1] + 2 * forward, at[2]>> ELSE Off,
                      Piece("Pawn", foe))
         b3 == Placed(b2, IF ahead1 # "Empty" THEN <<at[1] + forward, at[2]>> ELSE Off,
                      Piece("Pawn", IF ahead1 = "Friend" THEN colour ELSE foe))
         b4 == Placed(b3, IF left THEN <<at[1] + forward, at[2] - 1>> ELSE Off,
                      Piece("Knight", foe))
         b5 == Placed(b4, IF right THEN <<at[1] + forward, at[2] + 1>> ELSE Off,
                      Piece("Knight", foe))
     IN  Placed(b5, at, Piece("Pawn", colour)) :
        colour \in Colours,
        at \in PawnSquares,
        ahead1 \in {"Empty", "Friend", "Foe"},
        ahead2 \in BOOLEAN, left \in BOOLEAN, right \in BOOLEAN,
        passed \in BOOLEAN}

GeneratorPositions ==
    {ArrayBoard_new, test_pawn_promotion_board, after_a3_d5_board}
    \cup PawnPositions
    \cup {LonePiece(Piece("Knight", colour), row, col, to_move) :
            colour \in Colours, row \in Rows, col \in Rows, to_move \in Colours}
    \cup SliderPositions

\* no last move, and Black's double step d7-d5
LastMoves == {NoMove, Some(ChessMove(<<1, 3>>, <<3, 3>>, "None"))}

InitGenerate ==
    /\ board = BoardState_new
    /\ history = History_new
    /\ panicked = FALSE
    /\ last = [op |-> "new"]
    /\ called = {}
    /\ steps = 0
    /\ pushed = << >>
    /\ array_board \in GeneratorPositions

\* valid_moves takes &self: a position is asked once, a second call would
\* see the same position
ValidMoves(row, col, last_move) ==
    /\ ~panicked
    /\ last.op = "new"
    /\ LET r == valid_moves(array_board, row, col, last_move)
       IN  /\ last' = [op |-> "valid_moves", row |-> row, col |-> col,
                       last_move |-> last_move, ret |-> r.moves]
           /\ panicked' = r.panicked
    /\ UNCHANGED <<board, history, called, steps, pushed, array_board>>

NextGenerate ==
    \E row \in Rows, col \in Rows, last_move \in LastMoves \cup {Some(e2e4)} :
        ValidMoves(row, col, last_move)

SpecGenerate == InitGenerate /\ [][NextGenerate]_vars

\* the square number of (row, col): 8 * row + col
SquareOf(rc) == BOARD_SIZE * rc[1] + rc[2]

\* the squares of the moves of a Vec<ChessMove>
Destinations(moves) == {SquareOf(moves[i].to) : i \in 1 .. Len(moves)}

\* the squares a knight's jump away from (row, col)
KnightJumps(row, col) ==
    {SquareOf(<<r, c>>) : <<r, c>> \in
        {rc \in Rows \X Rows :
            {abs(rc[1] - row), abs(rc[2] - col)} = {1, 2}}}

\* C14: for a knight of the side to move alone on the board, valid_moves
\* yields exactly the on-board squares displaced by (2,1) or (1,2) in any
\* sign combination, each once and without wrapping; from square 27 these
\* are 44, 42, 37, 33, 17, 21, 12 and 10, and from a corner exactly two.
C14_KnightDestinations ==
    (/\ last.op = "valid_moves"
     /\ array_board = LonePiece(Piece("Knight", array_board.to_move),
                                last.row, last.col, array_board.to_move)) =>
        /\ ~panicked
        /\ Destinations(last.ret) = KnightJumps(last.row, last.col)
        /\ Len(last.ret) = Cardinality(KnightJumps(last.row, last.col))
        /\ \A i \in 1 .. Len(last.ret) :
                /\ last.ret[i].from = <<last.row, last.col>>
                /\ last.ret[i].promotion = "None"
        /\ SquareOf(<<last.row, last.col>>) = 27 =>
                Destinations(last.ret) = {44, 42, 37, 33, 17, 21, 12, 10}
        /\ (last.row \in {0, BOARD_SIZE - 1} /\ last.col \in {0, BOARD_SIZE - 1}) =>
                Cardinality(Destinations(last.ret)) = 2

\* C14's case: the moves of a lone knight on square 27 were generated.
C14_Witness ==
    /\ last.op = "valid_moves"
    /\ last.row = 3
    /\ last.col = 3
    /\ array_board = LonePiece(Piece("Knight", "Black"), 3, 3, "Black")
    /\ Len(last.ret) = 8
    /\ Destinations(last.ret) = {44, 42, 37, 33, 17, 21, 12, 10}

-----------------------------------------------------------------------------
(* SpecMoves: array boards driven through the validating apply_move of
   moves.rs, at most MaxSteps calls. *)

MovePositions ==
    {ArrayBoard_new, pawn_on_e5_board, test_pawn_promotion_board,
     pawn_on_e7_board, pawn_on_d8_board}

\* the moves asked for, each with and without the promotion to a queen
ArrayMoves ==
    {[m EXCEPT !.promotion = p] :
        m \in {e2e4, e4e5, d7d5, e5d6, e7d8, e7e8, d8c8, b1c3},
        p \in Promotions}

InitMoves ==
    /\ board = BoardState_new
    /\ history = History_new
    /\ panicked = FALSE
    /\ last = [op |-> "new"]
    /\ called = {}
    /\ steps = 0
    /\ pushed = << >>
    /\ array_board \in MovePositions

ApplyMoveValidated(chess_move, last_move) ==
    /\ ~panicked
    /\ steps < MaxSteps
    /\ LET r == moves_apply_move(array_board, chess_move, last_move)
       IN  /\ array_board' = r.board
           /\ panicked' = r.panicked
           /\ last' = [op |-> "moves::apply_move", move |-> chess_move,
                       last_move |-> last_move, ret |-> r.ret,
                       pre |-> array_board]
    /\ steps' = steps + 1
    /\ UNCHANGED <<board, history, called, pushed>>

NextMoves ==
    \E chess_move \in ArrayMoves, last_move \in LastMoves :
        ApplyMoveValidated(chess_move, last_move)

SpecMoves == InitMoves /\ [][NextMoves]_vars

\* some generated move has the destination and the promotion of chess_move
Matched(generated, chess_move) ==
    \E i \in 1 .. Len(generated.moves) :
        /\ generated.moves[i].to = chess_move.to
        /\ generated.moves[i].promotion = chess_move.promotion

\* the row farthest from the home row of colour
FarthestRow(colour) == IF colour = "White" THEN 0 ELSE BOARD_SIZE - 1

\* C16: the validating apply_move returns Err whenever no move of
\* valid_moves(origin, last_move) has the requested destination and
\* promotion -- so for an empty origin, for a piece of the side not to move
\* and for a pawn reaching its farthest rank without a promotion kind --
\* and then the squares and the side to move are as before; otherwise it
\* returns Ok and the side to move is flipped.
C16_ErrLeavesBoard ==
    last.op = "moves::apply_move" =>
        LET pre == last.pre
            chess_move == last.move
            origin == pre.board[chess_move.from[1]][chess_move.from[2]]
            generated == valid_moves(pre, chess_move.from[1], chess_move.from[2],
                                     last.last_move)
        IN  /\ last.ret = IF Matched(generated, chess_move) THEN "Ok" ELSE "Err"
            /\ origin = Empty => last.ret = "Err"
            /\ (origin # Empty /\ origin.colour # pre.to_move) => last.ret = "Err"
            /\ (/\ origin # Empty
                /\ origin.kind = "Pawn"
                /\ chess_move.to[1] = FarthestRow(origin.colour)
                /\ chess_move.promotion = "None") => last.ret = "Err"
            /\ last.ret = "Err" => array_board = pre
            /\ last.ret = "Ok" => array_board.to_move = opposite(pre.to_move)

\* chess_move is an en-passant capture in position b after the double step
\* lm: a pawn of the side to move steps diagonally forward onto the empty
\* square that the opposing pawn beside it has just passed over
EnPassantCapture(b, chess_move, lm) ==
    LET mover == b.board[chess_move.from[1]][chess_move.from[2]]
        victim == b.board[lm.to[1]][lm.to[2]]
        forward == IF mover.colour = "White" THEN -1 ELSE 1
    IN  /\ mover # Empty
        /\ mover.kind = "Pawn"
        /\ mover.colour = b.to_move
        /\ victim # Empty
        /\ victim.kind = "Pawn"
        /\ victim.colour # mover.colour
        /\ lm.from[2] = lm.to[2]
        /\ lm.from[1] - lm.to[1] = 2 * forward
        /\ lm.to[1] = chess_move.from[1]
        /\ abs(lm.to[2] - chess_move.from[2]) = 1
        /\ chess_move.to = <<chess_move.from[1] + forward, lm.to[2]>>
        /\ b.board[chess_move.to[1]][chess_move.to[2]] = Empty

\* C17: when the validating apply_move accepts a pawn's en-passant capture,
\* the capturing pawn afterwards stands on the destination and the square
\* of the opposing pawn that made the double step is empty.
C17_EnPassantRemoves ==
    (/\ last.op = "moves::apply_move"
     /\ last.ret = "Ok"
     /\ last.last_move # NoMove
     /\ EnPassantCapture(last.pre, last.move, last.last_move[1])) =>
        LET chess_move == last.move
            lm == last.last_move[1]
        IN  /\ array_board.board[chess_move.to[1]][chess_move.to[2]]
                    = last.pre.board[chess_move.from[1]][chess_move.from[2]]
            /\ array_board.board[lm.to[1]][lm.to[2]] = Empty

-----------------------------------------------------------------------------
(* Claims about the bit-set apply_move, checked under Spec *)

\* C18: apply_move relocates the moved piece whatever its kind: after a move
\* from a to b (a # b, no promotion) of the piece P standing on a,
\* piece_at(b) = P, piece_at(a) = None and a is in none of the 12 piece
\* sets, also when b held an opposing piece.
C18_Relocates ==
    LET from == last.move.from
        to == last.move.to
        P == piece_at(last.pre, from)
    IN  (/\ last.op = "apply_move"
         /\ ~panicked
         /\ from # to
         /\ last.move.promotion = "None") =>
            /\ piece_at(board, to) = P
            /\ piece_at(board, from) = None
            /\ SetsHolding(board, from) = {}

\* C19: apply_move resolves the en-passant capture: if the target recorded
\* before the call is e and a pawn moves to e, then afterwards the square
\* one rank behind e (e - 8 for a White mover, e + 8 for a Black one) holds
\* no piece.
C19_EnPassantResolved ==
    LET mover == piece_at(last.pre, last.move.from)
        e == last.pre.en_passant_square[1]
        behind == IF mover.colour = "White" THEN e - 8 ELSE e + 8
    IN  (/\ last.op = "apply_move"
         /\ ~panicked
         /\ last.pre.en_passant_square # NoSquare
         /\ mover.kind = "Pawn"
         /\ last.move.to = e) =>
            piece_at(board, behind) = None

\* C20: apply_move resolves promotion: after a move with promotion kind k by
\* a pawn of colour c, piece_at(destination) = (k, c) and the destination is
\* in neither pawn set, whether the destination was empty or held an
\* opposing piece; on a move of another piece the promotion kind changes
\* nothing.
C20_Promotes ==
    LET mover == piece_at(last.pre, last.move.from)
        to == last.move.to
        k == last.move.promotion
    IN  (/\ last.op = "apply_move"
         /\ ~panicked
         /\ k # "None") =>
            IF mover.kind = "Pawn"
            THEN /\ piece_at(board, to) = Piece(k, mover.colour)
                 /\ to \notin board.white_pawns \cup board.black_pawns
            ELSE board = apply_move(last.pre,
                                    ChessMove(last.move.from, to, "None")).board

-----------------------------------------------------------------------------
(* Claims about the position hash, checked under SpecQuery *)

\* wk + 2*wq + 4*bk + 8*bq of the castling-rights flags
RightsVectorIndex(b) ==
    (IF b.castling_rights[0] THEN 1 ELSE 0)
    + (IF b.castling_rights[1] THEN 2 ELSE 0)
    + (IF b.castling_rights[2] THEN 4 ELSE 0)
    + (IF b.castling_rights[3] THEN 8 ELSE 0)

\* C21: the castling key XORed into compute_hash is selected by the four
\* castling-rights flags alone: its index is wk + 2*wq + 4*bk + 8*bq,
\* whatever the piece placement and the side to move, and the start position
\* with all four rights uses index 15.
C21_CastlingKeyByFlags ==
    /\ last.op = "get_castling_rights_index" =>
            /\ last.ret = RightsVectorIndex(board)
            /\ board = BoardState_new => last.ret = 15
    /\ last.op = "compute_hash" =>
            castling_keys(RightsVectorIndex(board)) \in last.ret

\* C22: for two positions that differ only in the side to move, the hash of
\* the Black-to-move one is the hash of the White-to-move one XOR
\* side_to_move_key.
C22_SideKeyOnly ==
    (last.op = "compute_hash" /\ board.to_move = "White") =>
        compute_hash(flip_turn(board)) = Xor(last.ret, side_to_move_key)

-----------------------------------------------------------------------------
(* More claims about the History, checked under SpecHistory *)

\* the sum of the values of an occurrence-count map
RECURSIVE SumCounts(_)
SumCounts(map) ==
    IF map = {} THEN 0
    ELSE LET entry == CHOOSE e \in map : TRUE
         IN  entry[2] + SumCounts(map \ {entry})

\* C23: after any sequence of push, pop and clear the occurrence-count map
\* is in lock-step with the stored entries: the count of every fingerprint
\* is the number of stored entries (indices 0..len-1) that carry it, no
\* entry has count 0, and the counts sum to len().
C23_MapLockStep ==
    /\ \A e1 \in history.repetitions, e2 \in history.repetitions :
            e1[1] = e2[1] => e1 = e2
    /\ \A e \in history.repetitions :
            /\ e[2] > 0
            /\ e[2] = Cardinality(Occurrences(history, e[1]))
    /\ \A z \in Hashes :
            Occurrences(history, z) # {} => z \in Keys(history.repetitions)
    /\ SumCounts(history.repetitions) = len(history)

\* C23's case: pop() removed the only occurrence of one fingerprint, whose
\* map entry is gone, while another fingerprint is still counted twice.
C23_Witness ==
    /\ last.op = "pop"
    /\ 12345 \in Keys(last.pre.repetitions)
    /\ 12345 \notin Keys(history.repetitions)
    /\ <<67890, 2>> \in history.repetitions
    /\ len(history) = 2

-----------------------------------------------------------------------------
(* More claims about the move generator, checked under SpecGenerate *)

\* the directions a sliding piece of the kind moves in
SlideDirections(kind) ==
    (IF kind \in {"Rook", "Queen"}
     THEN {<<1, 0>>, <<-1, 0>>, <<0, 1>>, <<0, -1>>} ELSE {})
    \cup (IF kind \in {"Bishop", "Queen"}
          THEN {<<1, 1>>, <<1, -1>>, <<-1, 1>>, <<-1, -1>>} ELSE {})

\* the squares a slider on (row, col) reaches: n steps along one of its
\* directions, on the board, over empty squares only, ending on an empty
\* square or on an opposing piece
SlideTargets(b, row, col) ==
    LET piece == b.board[row][col]
    IN  {rc \in Rows \X Rows :
            \E d \in SlideDirections(piece.kind), n \in 1 .. (BOARD_SIZE - 1) :
                /\ rc = <<row + n * d[1], col + n * d[2]>>
                /\ \A m \in 1 .. (n - 1) :
                        b.board[row + m * d[1]][col + m * d[2]] = Empty
                /\ b.board[rc[1]][rc[2]].colour # piece.colour}

\* C24: for a rook, bishop or queen of the side to move the generator emits,
\* along each of its directions, every empty square up to the first occupied
\* square or the edge, that occupied square only if it holds an opposing
\* piece, and nothing beyond it; nothing else is generated and no ray wraps
\* across an edge.
C24_SlidingRays ==
    LET piece == array_board.board[last.row][last.col]
    IN  (/\ last.op = "valid_moves"
         /\ piece.kind \in {"Rook", "Bishop", "Queen"}
         /\ piece.colour = array_board.to_move) =>
            /\ ~panicked
            /\ Destinations(last.ret)
                    = {SquareOf(rc) : rc \in SlideTargets(array_board, last.row, last.col)}
            /\ Len(last.ret) = Cardinality(Destinations(last.ret))
            /\ \A i \in 1 .. Len(last.ret) :
                    /\ last.ret[i].from = <<last.row, last.col>>
                    /\ last.ret[i].promotion = "None"

\* C24's case: a queen on (3, 3) with a pawn of her own on (3, 5) and an
\* opposing one on (1, 1): she reaches (3, 4) but not (3, 5), and (1, 1) but
\* not (0, 0).
C24_Witness ==
    /\ last.op = "valid_moves"
    /\ last.row = 3
    /\ last.col = 3
    /\ array_board.board[3][3] = Piece("Queen", "White")
    /\ array_board.board[3][5] = Piece("Pawn", "White")
    /\ array_board.board[1][1] = Piece("Pawn", "Black")
    /\ {SquareOf(<<3, 4>>), SquareOf(<<1, 1>>)} \subseteq Destinations(last.ret)
    /\ {SquareOf(<<3, 5>>), SquareOf(<<0, 0>>)} \cap Destinations(last.ret) = {}

\* the pawn of the side to move that the last call asked about, its
\* direction and the set of generated moves
PawnAsked ==
    /\ last.op = "valid_moves"
    /\ array_board.board[last.row][last.col].kind = "Pawn"
    /\ array_board.board[last.row][last.col].colour = array_board.to_move

Forward == IF array_board.to_move = "White" THEN -1 ELSE 1

Generated == {last.ret[i] : i \in 1 .. Len(last.ret)}

Occupied(rc) == array_board.board[rc[1]][rc[2]] # Empty

\* C25: a pawn double push (two rows ahead in the same column) is generated
\* iff the pawn stands on its colour's starting rank and the squares one and
\* two steps ahead are both empty; a single push is generated only onto an
\* empty square.
C25_PawnPushes ==
    PawnAsked =>
        LET one == <<last.row + Forward, last.col>>
            two == <<last.row + 2 * Forward, last.col>>
            starting_rank == IF array_board.to_move = "White"
                             THEN BOARD_SIZE - 2 ELSE 1
        IN  /\ (\E m \in Generated : m.to = two) <=>
                    /\ last.row = starting_rank
                    /\ ~Occupied(one)
                    /\ ~Occupied(two)
            /\ \A m \in Generated : m.to = one => ~Occupied(one)

\* C26: pawn captures are diagonal captures onto opponent-occupied squares:
\* for every opposing piece one step diagonally forward of the pawn a move
\* to exactly that square is generated, with a promotion kind when the
\* square is on the farthest rank, and no generated pawn move ends on an
\* occupied square straight ahead.
C26_PawnCaptures ==
    PawnAsked =>
        /\ \A dc \in {-1, 1} :
               LET target == <<last.row + Forward, last.col + dc>>
               IN  (/\ InRange(target[2])
                    /\ Occupied(target)
                    /\ array_board.board[target[1]][target[2]].colour
                            # array_board.to_move) =>
                        \E m \in Generated :
                            /\ m.to = target
                            /\ m.promotion # "None"
                                   <=> target[1] = FarthestRow(array_board.to_move)
        /\ \A m \in Generated :
               ~(m.to = <<last.row + Forward, last.col>> /\ Occupied(m.to))

\* C27: an en-passant move is generated only for a pawn diagonally adjacent
\* to the en-passant target: every generated pawn move onto an empty square
\* that changes column is a one-step diagonal move onto the square passed
\* over by the double step, given as last_move, of an opposing pawn
\* standing on the same row in an adjacent column.
C27_EnPassantAdjacent ==
    PawnAsked =>
        \A m \in Generated :
            (m.to[2] # last.col /\ ~Occupied(m.to)) =>
                /\ last.last_move # NoMove
                /\ LET lm == last.last_move[1]
                       passer == array_board.board[lm.to[1]][lm.to[2]]
                   IN  /\ passer = Piece("Pawn", opposite(array_board.to_move))
                       /\ lm.from[1] - lm.to[1] = 2 * Forward
                       /\ lm.from[2] = lm.to[2]
                       /\ lm.to[1] = last.row
                       /\ abs(lm.to[2] - last.col) = 1
                       /\ m.to = <<last.row + Forward, lm.to[2]>>

-----------------------------------------------------------------------------
(* Claims about the castling-rights flags, checked under Spec *)

AllRights == [i \in 0 .. 3 |-> TRUE]

\* C28: bit-set apply_move never changes the four castling-rights flags:
\* every call leaves them as they were, so after any sequence of apply_move
\* calls from new() all four are still set, also when a king has left its
\* origin square or been captured on it; only update_castling_rights writes
\* them.
C28_ApplyMoveKeepsRights ==
    /\ last.op = "apply_move" =>
            board.castling_rights = last.pre.castling_rights
    /\ called \subseteq {"apply_move"} => board.castling_rights = AllRights
    /\ last.op \in {"set_piece_at", "flip_turn"} =>
            board.castling_rights = last.pre.castling_rights
    /\ last.op = "update_castling_rights" =>
            board.castling_rights =
                [i \in 0 .. 3 |-> last.rights[i + 1]]

\* C28's case: after apply_move calls only, the white king has been moved
\* off e1 (the square is no longer among all_pieces) and the black king has
\* been captured on e8, and the call returned.
C28_Witness ==
    /\ last.op = "apply_move"
    /\ called = {"apply_move"}
    /\ ~panicked
    /\ piece_at(last.pre, 60) = Piece("King", "Black")
    /\ last.move.to = 60
    /\ ~BitBoard_is_set(board.all_pieces, 4)

-----------------------------------------------------------------------------
(* Claims about the castling queries and the side to move, checked under
   SpecQuery *)

\* C29: can_castle_kingside(c) and can_castle_queenside(c) do not depend on
\* the side to move: the position that differs from the asked one only in
\* the side to move gives the same answer for the same colour c.
C29_CastleIgnoresTurn ==
    /\ last.op = "can_castle_kingside" =>
            last.ret = can_castle_kingside(flip_turn(board), last.colour)
    /\ last.op = "can_castle_queenside" =>
            last.ret = can_castle_queenside(flip_turn(board), last.colour)

-----------------------------------------------------------------------------
(* Claims about the fifty-move query on an empty History, checked under
   SpecHistory *)

\* C30: is_fifty_move_rule() on an empty History (new, cleared, or with every
\* entry popped) aborts instead of answering; the entry an earlier pop or
\* clear left in slot 0 is never read.
C30_EmptyFiftyMoveAborts ==
    (last.op = "is_fifty_move_rule" /\ last.pre.count = 0) =>
        /\ panicked
        /\ history = last.pre

\* C30's case: the query was asked of an emptied History whose slot 0 still
\* holds an entry with clock 100, and aborted.
C30_Witness ==
    /\ last.op = "is_fifty_move_rule"
    /\ last.pre.count = 0
    /\ Len(last.pre.list) > 0
    /\ list_at(last.pre, 0).half_move_clock >= 100
    /\ panicked

====
